---- MODULE Spec2Model ----
(***************************************************************************)
(* Order fulfilment and invoicing engine of carpinteria-node.              *)
(*                                                                         *)
(* The store is one MySQL/InnoDB database (src/seeds/carpinteria.sql)      *)
(* reached through a mysql2 pool (utils/db.js).  The variables hold the    *)
(* COMMITTED contents of the tables; a request is a process whose record   *)
(* holds the JavaScript locals of its handler and the position reached.    *)
(*                                                                         *)
(* InnoDB semantics used (default isolation REPEATABLE READ, which the     *)
(* code never changes):                                                    *)
(*  - a plain SELECT inside a transaction is a non-locking consistent      *)
(*    read of committed data as of the transaction's first SELECT; the     *)
(*    handlers keep what they read in locals;                              *)
(*  - UPDATE / DELETE / INSERT operate on the latest committed rows under  *)
(*    row locks held until COMMIT; a statement that needs a lock another   *)
(*    transaction holds waits for that transaction to end;                 *)
(*  - hence a row written by a transaction cannot change between the       *)
(*    write and the commit, and what the transaction installs is a         *)
(*    function of the committed rows at its commit.  The writes of a       *)
(*    transaction and its COMMIT are therefore one action, taken at the    *)
(*    commit; the reads that precede them are separate, earlier actions;   *)
(*  - a statement that fails (deadlock victim, lock wait timeout, lost     *)
(*    connection) rejects its await: action ErrorBD.                       *)
(***************************************************************************)
EXTENDS Integers, Sequences, FiniteSets, TLC

\* ---------------------------------------------------------------- bounds
NumProductos == 2
NumUsuarios == 2
NumProcs == 2
MaxStock == 3
MaxVentas == 2
MaxFacturas == 2
MaxPeticiones == 4
MaxConexiones == 2

\* String(numeroSecuencial).padStart(4, '0') and slice(-4): the width of the
\* sequence part of an invoice number.
AnchoSecuencial == 4

\* The server clock when the requests run: December 2026.
PeriodoInicial == 202612

Productos == 1..NumProductos
Usuarios == 1..NumUsuarios
Procs == 1..NumProcs
VentaIds == 1..MaxVentas
FacturaIds == 1..MaxFacturas

VARIABLES
    stock,          \* Productos.stock
    estado,         \* Productos.estado
    precio,         \* Productos.precio
    carritos,       \* users that own a row of Carritos
    carrito,        \* Productos_Carrito: carrito[u][pr] = cantidad, 0 = no row
    ventas,         \* Ventas: id_venta -> row
    detalles,       \* Detalles_Venta: id_venta -> rows in insertion order
    nextVenta,      \* AUTO_INCREMENT of Ventas
    facturas,       \* Facturas: id_factura -> row (numero_factura: its digits)
    nextFactura,    \* AUTO_INCREMENT of Facturas
    periodo,        \* year*100 + month of the server clock
    peticiones,     \* HTTP requests received so far
    proc,           \* the request each worker runs: locals and position
    stockAntes,     \* history: id_venta -> stock right before the sale committed
    restauraciones, \* history: id_venta -> committed stock restorations
    emitidos        \* history: the numbers of the invoices issued, in commit order

db == <<stock, estado, precio, carritos, carrito, ventas, detalles, facturas>>
hist == <<stockAntes, restauraciones, emitidos>>
reloj == <<periodo, peticiones>>
vars == <<stock, estado, precio, carritos, carrito, ventas, detalles, nextVenta,
          facturas, nextFactura, periodo, peticiones, proc, stockAntes,
          restauraciones, emitidos>>

\* ------------------------------------------------------------- helpers
RECURSIVE SumaSubtotales(_)
SumaSubtotales(ls) ==
    IF ls = <<>> THEN 0 ELSE Head(ls).subtotal + SumaSubtotales(Tail(ls))

\* Every order in which a SELECT without ORDER BY may return the rows of S.
Ordenes(S) ==
    {o \in [1..Cardinality(S) -> S] : \A i, j \in DOMAIN o : i /= j => o[i] /= o[j]}

ProcInicial ==
    [pc |-> "idle", op |-> "none", usuario |-> 0, venta |-> 0, factura |-> 0,
     lineas |-> <<>>, total |-> 0, numero |-> <<>>, estadoVenta |-> "",
     res |-> "none", faltantes |-> {}]

\* The handler of request p returns or throws to its controller: the
\* connection is released and the controller holds the outcome `res` it is
\* about to send.
Terminar(p, op, res, u, v, f) ==
    proc' = [proc EXCEPT ![p] =
                [ProcInicial EXCEPT !.pc = "fin", !.op = op, !.res = res,
                                    !.usuario = u, !.venta = v, !.factura = f]]

\* --------------------------------------------------- SQL of the handlers
\* A decrement of one unit whatever the quantity sold.
DescontarUnidad(s, e, q) ==
    LET nuevo == s - 1
    IN [stock |-> nuevo, estado |-> IF nuevo - q <= 0 THEN "AGOTADO" ELSE e]

\* UPDATE Productos SET stock = stock - ?, estado = CASE WHEN stock - ? <= 0
\* THEN 'AGOTADO' ELSE estado END.  MySQL evaluates the assignments of a
\* single-table UPDATE from left to right, so the `stock` of the CASE is the
\* value the first assignment has just stored.
DescontarStock(s, e, q) ==
    LET nuevo == s - q
    IN [stock |-> nuevo, estado |-> IF nuevo - q <= 0 THEN "AGOTADO" ELSE e]

\* A restoration of one unit whatever the quantity sold.
RestaurarUnidad(s, e, q) ==
    LET nuevo == s + 1
    IN [stock |-> nuevo,
        estado |-> IF e = "AGOTADO" /\ nuevo + q > 0 THEN "DISPONIBLE" ELSE e]

\* UPDATE Productos SET stock = stock + ?, estado = CASE WHEN estado =
\* 'AGOTADO' AND stock + ? > 0 THEN 'DISPONIBLE' ELSE estado END (same
\* left-to-right evaluation).
RestaurarStock(s, e, q) ==
    LET nuevo == s + q
    IN [stock |-> nuevo,
        estado |-> IF e = "AGOTADO" /\ nuevo + q > 0 THEN "DISPONIBLE" ELSE e]

\* Quantity of product pr in a list of lines (0 when absent).
CantidadDe(ls, pr) ==
    IF \E j \in DOMAIN ls : ls[j].id_producto = pr
    THEN ls[CHOOSE j \in DOMAIN ls : ls[j].id_producto = pr].cantidad
    ELSE 0

\* ------------------------------------------------------------- Init
Init ==
    /\ stock = [pr \in Productos |-> MaxStock]
    /\ estado = [pr \in Productos |-> "DISPONIBLE"]
    /\ precio = [pr \in Productos |-> pr]
    /\ carritos = {}
    /\ carrito = [u \in Usuarios |-> [pr \in Productos |-> 0]]
    /\ ventas = <<>>
    /\ detalles = <<>>
    /\ nextVenta = 1
    /\ facturas = <<>>
    /\ nextFactura = 1
    /\ periodo = PeriodoInicial
    /\ peticiones = 0
    /\ proc = [p \in Procs |-> ProcInicial]
    /\ stockAntes = <<>>
    /\ restauraciones = <<>>
    /\ emitidos = <<>>

\* ------------------------------------------------- Carrito.agregarProducto
\* The product must be DISPONIBLE with stock >= cantidad; the cart is created
\* on first use; an existing line is increased (the sum must not exceed the
\* stock), otherwise a line is inserted.
agregarProducto(u, pr, cantidad) ==
    /\ estado[pr] = "DISPONIBLE"
    /\ stock[pr] >= cantidad
    /\ carrito[u][pr] + cantidad <= stock[pr]
    /\ peticiones < MaxPeticiones
    /\ peticiones' = peticiones + 1
    /\ carritos' = carritos \cup {u}
    /\ carrito' = [carrito EXCEPT ![u][pr] = @ + cantidad]
    /\ UNCHANGED <<stock, estado, precio, ventas, detalles, nextVenta, facturas,
                   nextFactura, periodo, proc, hist>>

\* --------------------------------------- Venta.procesarVentaDesdeCarrito
\* The rows of productosCarrito for the products `orden` enumerates.
LineasCarrito(u, orden) ==
    [j \in DOMAIN orden |->
        [id_producto |-> orden[j],
         cantidad |-> carrito[u][orden[j]],
         precio |-> precio[orden[j]],
         stock |-> stock[orden[j]],
         subtotal |-> carrito[u][orden[j]] * precio[orden[j]]]]

\* A stock test that lets a line through when it asks for one unit more
\* than the stock.
StockInsuficienteLaxo(linea) == linea.cantidad > linea.stock + 1

\* The test of step 3 for one row.
StockInsuficiente(linea) == linea.cantidad > linea.stock

\* The row at which the loop of step 3 throws: the first one, in the order
\* the SELECT returned them, that fails the test.
PrimeraEnFalta(ls) ==
    CHOOSE j \in DOMAIN ls :
        /\ StockInsuficiente(ls[j])
        /\ \A k \in 1..(j - 1) : ~StockInsuficiente(ls[k])

\* What the message of the thrown Error names: `Stock insuficiente para
\* ${nombre_producto}. Disponible: ${stock}, Solicitado: ${cantidad}`.
Faltante(linea) ==
    [id_producto |-> linea.id_producto, disponible |-> linea.stock,
     solicitado |-> linea.cantidad]

\* Steps 1-5: both SELECTs (one consistent snapshot), the emptiness test,
\* the stock test, the total, and INSERT INTO Ventas, whose insertId is the
\* next AUTO_INCREMENT value (a later rollback does not give it back).  Every
\* failure is thrown before any write, so the rollback of the catch block has
\* nothing to undo.
PV_Leer(p, u) ==
    /\ proc[p].pc = "idle"
    /\ peticiones < MaxPeticiones
    /\ peticiones' = peticiones + 1
    /\ nextVenta <= MaxVentas
    /\ LET disp == {pr \in Productos : carrito[u][pr] > 0 /\ estado[pr] = "DISPONIBLE"}
       IN IF u \notin carritos
          THEN Terminar(p, "compra", "SinCarrito", u, 0, 0) /\ UNCHANGED nextVenta
          ELSE IF disp = {}
          THEN Terminar(p, "compra", "CarritoVacio", u, 0, 0) /\ UNCHANGED nextVenta
          ELSE \E orden \in Ordenes(disp) :
                LET ls == LineasCarrito(u, orden)
                IN IF \E j \in DOMAIN ls : StockInsuficiente(ls[j])
                   THEN /\ proc' = [proc EXCEPT ![p] =
                                [ProcInicial EXCEPT !.pc = "fin", !.op = "compra",
                                    !.res = "StockInsuficiente", !.usuario = u,
                                    !.faltantes = {Faltante(ls[PrimeraEnFalta(ls)])}]]
                        /\ UNCHANGED nextVenta
                   ELSE /\ proc' = [proc EXCEPT ![p] =
                                [ProcInicial EXCEPT !.pc = "pv_commit", !.op = "compra",
                                    !.usuario = u, !.lineas = ls,
                                    !.total = SumaSubtotales(ls),
                                    !.venta = nextVenta]]
                        /\ nextVenta' = nextVenta + 1
    /\ UNCHANGED <<db, nextFactura, periodo, hist>>

\* Rows of Detalles_Venta that store the unit price as the line's subtotal.
DetallesSinCantidad(ls) ==
    [j \in DOMAIN ls |->
        [id_producto |-> ls[j].id_producto, cantidad |-> ls[j].cantidad,
         precio_unitario |-> ls[j].precio, subtotal_linea |-> ls[j].precio]]

\* The rows of Detalles_Venta the transaction inserted.
DetallesDe(ls) ==
    [j \in DOMAIN ls |->
        [id_producto |-> ls[j].id_producto, cantidad |-> ls[j].cantidad,
         precio_unitario |-> ls[j].precio, subtotal_linea |-> ls[j].subtotal]]

\* Stock and estado of every product after the UPDATE Productos of step 7
\* has run for each row of ls.
StockDescontado(ls) ==
    [pr \in Productos |->
        IF \E j \in DOMAIN ls : ls[j].id_producto = pr
        THEN DescontarStock(stock[pr], estado[pr], CantidadDe(ls, pr)).stock
        ELSE stock[pr]]

EstadoDescontado(ls) ==
    [pr \in Productos |->
        IF \E j \in DOMAIN ls : ls[j].id_producto = pr
        THEN DescontarStock(stock[pr], estado[pr], CantidadDe(ls, pr)).estado
        ELSE estado[pr]]

\* Steps 6-8 and connection.commit(): the lines of the sale, the UPDATE of
\* each product's row, DELETE FROM Productos_Carrito WHERE id_carrito = ?,
\* and the commit that makes them and the sale visible together.
PV_Commit(p) ==
    /\ proc[p].pc = "pv_commit"
    /\ LET v == proc[p].venta
           ls == proc[p].lineas
       IN /\ ventas' = v :> [id_usuario |-> proc[p].usuario,
                              total_venta |-> proc[p].total,
                              estado_venta |-> "COMPLETADA"] @@ ventas
          /\ detalles' = v :> DetallesDe(ls) @@ detalles
          /\ stock' = StockDescontado(ls)
          /\ estado' = EstadoDescontado(ls)
          /\ carrito' = [carrito EXCEPT ![proc[p].usuario] = [pr \in Productos |-> 0]]
          /\ stockAntes' = v :> stock @@ stockAntes
          /\ restauraciones' = v :> 0 @@ restauraciones
    /\ proc' = [proc EXCEPT ![p].pc = "pv_obtener"]
    /\ UNCHANGED <<precio, carritos, facturas, nextVenta, nextFactura, reloj,
                   emitidos>>

\* Step 9: obtenerVentaPorId returns the sale; VentaController.procesarCompra
\* goes on to Factura.generarFactura(venta.id_venta).
PV_ObtenerVenta(p) ==
    /\ proc[p].pc = "pv_obtener"
    /\ proc' = [proc EXCEPT ![p].pc = "gf_leer"]
    /\ UNCHANGED <<db, nextVenta, nextFactura, reloj, hist>>

\* ------------------------------------------------- Factura.generarFactura
\* FacturaController.generarFactura: a request for sale v arrives.
GF_Solicitar(p, v) ==
    /\ proc[p].pc = "idle"
    /\ peticiones < MaxPeticiones
    /\ peticiones' = peticiones + 1
    /\ proc' = [proc EXCEPT ![p] =
                  [ProcInicial EXCEPT !.pc = "gf_leer", !.op = "factura", !.venta = v]]
    /\ UNCHANGED <<db, nextVenta, nextFactura, periodo, hist>>

\* SELECT v.*, f.id_factura FROM Ventas v LEFT JOIN Facturas f ... WHERE
\* v.id_venta = ? AND v.estado_venta = 'COMPLETADA', and the two tests on it.
GF_Leer(p) ==
    /\ proc[p].pc = "gf_leer"
    /\ LET v == proc[p].venta
       IN IF v \notin DOMAIN ventas \/ ventas[v].estado_venta /= "COMPLETADA"
          THEN Terminar(p, proc[p].op, "VentaNoCompletada", proc[p].usuario, v, 0)
          ELSE IF \E f \in DOMAIN facturas : facturas[f].id_venta = v
          THEN Terminar(p, proc[p].op, "YaTieneFactura", proc[p].usuario, v, 0)
          ELSE proc' = [proc EXCEPT ![p].pc = "gf_numero",
                                    ![p].total = ventas[v].total_venta]
    /\ UNCHANGED <<db, nextVenta, nextFactura, reloj, hist>>

\* An invoice number is a string of decimal digits, held as the sequence of
\* its digits.  String(n): the digits of n >= 0.
RECURSIVE Digitos(_)
Digitos(n) == IF n < 10 THEN <<n>> ELSE Append(Digitos(n \div 10), n % 10)

\* s.padStart(k, '0').
RECURSIVE padStart(_, _)
padStart(s, k) == IF Len(s) >= k THEN s ELSE padStart(<<0>> \o s, k)

\* s.slice(-k).
slice(s, k) == IF Len(s) <= k THEN s ELSE SubSeq(s, Len(s) - k + 1, Len(s))

\* parseInt(s) of a string of digits.
RECURSIVE parseInt(_)
parseInt(s) ==
    IF s = <<>> THEN 0
    ELSE 10 * parseInt(SubSeq(s, 1, Len(s) - 1)) + s[Len(s)]

\* `${año}${mes}` with mes = String(getMonth() + 1).padStart(2, '0'), for
\* the clock at year*100 + month = q.
PrefijoDelPeriodo(q) == Digitos(q \div 100) \o padStart(Digitos(q % 100), 2)

Prefijo == PrefijoDelPeriodo(periodo)

\* s LIKE 'pre%'.
EmpiezaPor(s, pre) == Len(s) >= Len(pre) /\ SubSeq(s, 1, Len(pre)) = pre

\* The order of ORDER BY on a VARCHAR column: character by character, a
\* proper prefix before the longer string.
RECURSIVE CadenaMenor(_, _)
CadenaMenor(a, b) ==
    IF a = <<>> THEN b /= <<>>
    ELSE IF b = <<>> THEN FALSE
    ELSE IF a[1] /= b[1] THEN a[1] < b[1]
    ELSE CadenaMenor(Tail(a), Tail(b))

\* Factura.generarNumeroFactura: the committed numbers of the current period
\* (numero_factura LIKE 'YYYYMM%'), the first of them in descending string
\* order, its last four characters parsed plus one; 1 when the period has
\* none.  The query goes through the pool (db.execute), outside the
\* caller's transaction.
NumerosDelPeriodo ==
    {n \in {facturas[f].numero_factura : f \in DOMAIN facturas} :
        EmpiezaPor(n, Prefijo)}

Maximo(S) == CHOOSE m \in S : \A n \in S : n = m \/ CadenaMenor(n, m)

generarNumeroFactura ==
    LET numeroSecuencial ==
            IF NumerosDelPeriodo = {} THEN 1
            ELSE parseInt(slice(Maximo(NumerosDelPeriodo), AnchoSecuencial)) + 1
    IN Prefijo \o padStart(Digitos(numeroSecuencial), AnchoSecuencial)

GF_Numero(p) ==
    /\ proc[p].pc = "gf_numero"
    /\ proc' = [proc EXCEPT ![p].pc = "gf_insertar", ![p].numero = generarNumeroFactura]
    /\ UNCHANGED <<db, nextVenta, nextFactura, reloj, hist>>

\* Table Facturas with UNIQUE (numero_factura) alone.
NumeroDuplicado(v, n) ==
    \E f \in DOMAIN facturas : facturas[f].numero_factura = n

\* Table Facturas with UNIQUE (id_venta) alone.
VentaDuplicada(v, n) ==
    \E f \in DOMAIN facturas : facturas[f].id_venta = v

\* UNIQUE (id_venta), UNIQUE (numero_factura) of table Facturas: a committed
\* row with the same key makes the INSERT fail (ER_DUP_ENTRY).
ClaveDuplicada(v, n) ==
    \E f \in DOMAIN facturas :
        facturas[f].id_venta = v \/ facturas[f].numero_factura = n

\* A row whose amount is one above the total of the sale.
FilaFacturaRecargada(v, n, total) ==
    [id_venta |-> v, numero_factura |-> n, monto_total |-> total + 1,
     estado |-> "EMITIDA"]

\* The row of INSERT INTO Facturas (id_venta, numero_factura, monto_total,
\* estado) VALUES (?, ?, ?, 'EMITIDA') with [idVenta, numeroFactura,
\* venta[0].total_venta].
FilaFactura(v, n, total) ==
    [id_venta |-> v, numero_factura |-> n, monto_total |-> total,
     estado |-> "EMITIDA"]

\* The INSERT INTO Facturas and connection.commit().
GF_Commit(p) ==
    /\ proc[p].pc = "gf_insertar"
    /\ IF ClaveDuplicada(proc[p].venta, proc[p].numero)
       THEN /\ Terminar(p, proc[p].op, "Duplicada", proc[p].usuario, proc[p].venta, 0)
            /\ UNCHANGED <<facturas, nextFactura, emitidos>>
       ELSE /\ nextFactura <= MaxFacturas
            /\ facturas' = nextFactura :>
                    FilaFactura(proc[p].venta, proc[p].numero, proc[p].total)
                    @@ facturas
            /\ emitidos' = Append(emitidos, proc[p].numero)
            /\ proc' = [proc EXCEPT ![p].pc = "gf_obtener", ![p].factura = nextFactura]
            /\ nextFactura' = nextFactura + 1
    /\ UNCHANGED <<stock, estado, precio, carritos, carrito, ventas, detalles,
                   nextVenta, reloj, stockAntes, restauraciones>>

\* The outcome of obtenerFacturaPorId(f): the invoice, or the throw of
\* 'Factura no encontrada' when the row is not (or no longer) there.
LeerFactura(f) == IF f \in DOMAIN facturas THEN "ok" ELSE "NoEncontrada"

\* obtenerFacturaPorId after the commit; the invoice is returned.
GF_ObtenerFactura(p) ==
    /\ proc[p].pc = "gf_obtener"
    /\ Terminar(p, proc[p].op, LeerFactura(proc[p].factura), proc[p].usuario,
                proc[p].venta, proc[p].factura)
    /\ UNCHANGED <<db, nextVenta, nextFactura, reloj, hist>>

\* --------------------------------------------------- Venta.cancelarVenta
\* The rows SELECT id_producto, cantidad FROM Detalles_Venta WHERE id_venta
\* = ? returns, in the order `orden` of the row positions.
LineasVenta(v, orden) ==
    [j \in DOMAIN orden |->
        [id_producto |-> detalles[v][orden[j]].id_producto,
         cantidad |-> detalles[v][orden[j]].cantidad]]

\* The same SELECT without its condition on id_usuario.
VentaCompletada(v, u) ==
    /\ v \in DOMAIN ventas
    /\ ventas[v].estado_venta = "COMPLETADA"

\* The same SELECT without its condition on estado_venta.
VentaDelUsuario(v, u) ==
    /\ v \in DOMAIN ventas
    /\ ventas[v].id_usuario = u

\* SELECT * FROM Ventas WHERE id_venta = ? AND id_usuario = ? AND
\* estado_venta = 'COMPLETADA'.
VentaCancelable(v, u) ==
    /\ v \in DOMAIN ventas
    /\ ventas[v].id_usuario = u
    /\ ventas[v].estado_venta = "COMPLETADA"

\* Both SELECTs of cancelarVenta (one snapshot) and the test between them.
CV_Leer(p, v, u) ==
    /\ proc[p].pc = "idle"
    /\ peticiones < MaxPeticiones
    /\ peticiones' = peticiones + 1
    /\ IF VentaCancelable(v, u)
       THEN \E orden \in Ordenes(DOMAIN detalles[v]) :
                proc' = [proc EXCEPT ![p] =
                    [ProcInicial EXCEPT !.pc = "cv_commit", !.op = "cancelar",
                        !.usuario = u, !.venta = v,
                        !.lineas = LineasVenta(v, orden)]]
       ELSE Terminar(p, "cancelar", "NoCancelable", u, v, 0)
    /\ UNCHANGED <<db, nextVenta, nextFactura, periodo, hist>>

\* Stock and estado of every product after the restoring UPDATE Productos
\* has run for each row of ls.
StockRestaurado(ls) ==
    [pr \in Productos |->
        IF \E j \in DOMAIN ls : ls[j].id_producto = pr
        THEN RestaurarStock(stock[pr], estado[pr], CantidadDe(ls, pr)).stock
        ELSE stock[pr]]

EstadoRestaurado(ls) ==
    [pr \in Productos |->
        IF \E j \in DOMAIN ls : ls[j].id_producto = pr
        THEN RestaurarStock(stock[pr], estado[pr], CantidadDe(ls, pr)).estado
        ELSE estado[pr]]

\* The users whose role holds the permission '*' (id_rol 1, Super
\* Administrador); every other user has id_rol 2 (Usuario).
Administradores == {1}

\* The UPDATE Productos of each row of detalles, UPDATE Ventas SET
\* estado_venta = 'CANCELADA', connection.commit() and return true.
CV_Commit(p) ==
    /\ proc[p].pc = "cv_commit"
    /\ stock' = StockRestaurado(proc[p].lineas)
    /\ estado' = EstadoRestaurado(proc[p].lineas)
    /\ ventas' = [ventas EXCEPT ![proc[p].venta].estado_venta = "CANCELADA"]
    /\ restauraciones' = [restauraciones EXCEPT ![proc[p].venta] = @ + 1]
    /\ Terminar(p, "cancelar", "ok", proc[p].usuario, proc[p].venta, 0)
    /\ UNCHANGED <<precio, carritos, carrito, detalles, facturas, nextVenta,
                   nextFactura, reloj, stockAntes, emitidos>>

\* -------------------------------------------------- Factura.anularFactura
\* The same SELECT without its condition on f.estado.
FacturaExistente(f) == f \in DOMAIN facturas

\* SELECT f.*, v.id_venta, v.estado_venta FROM Facturas f INNER JOIN Ventas v
\* ... WHERE f.id_factura = ? AND f.estado IN ('EMITIDA', 'PAGADA').
FacturaAnulable(f) ==
    /\ f \in DOMAIN facturas
    /\ facturas[f].estado \in {"EMITIDA", "PAGADA"}

AF_Leer(p, f) ==
    /\ proc[p].pc = "idle"
    /\ peticiones < MaxPeticiones
    /\ peticiones' = peticiones + 1
    /\ IF FacturaAnulable(f)
       THEN LET v == facturas[f].id_venta
            IN \E orden \in Ordenes(DOMAIN detalles[v]) :
                proc' = [proc EXCEPT ![p] =
                    [ProcInicial EXCEPT !.pc = "af_commit", !.op = "anular",
                        !.factura = f, !.venta = v,
                        !.estadoVenta = ventas[v].estado_venta,
                        !.lineas = LineasVenta(v, orden)]]
       ELSE Terminar(p, "anular", "NoAnulable", 0, 0, f)
    /\ UNCHANGED <<db, nextVenta, nextFactura, periodo, hist>>

\* UPDATE Facturas SET estado = 'ANULADA' WHERE id_factura = ?; when the
\* estado_venta that the SELECT returned is COMPLETADA, UPDATE Ventas SET
\* estado_venta = 'CANCELADA' and the UPDATE Productos of each row of
\* detalles; connection.commit().
AF_Commit(p) ==
    /\ proc[p].pc = "af_commit"
    /\ facturas' = IF proc[p].factura \in DOMAIN facturas
                   THEN [facturas EXCEPT ![proc[p].factura].estado = "ANULADA"]
                   ELSE facturas
    /\ IF proc[p].estadoVenta = "COMPLETADA"
       THEN /\ ventas' = [ventas EXCEPT ![proc[p].venta].estado_venta = "CANCELADA"]
            /\ stock' = StockRestaurado(proc[p].lineas)
            /\ estado' = EstadoRestaurado(proc[p].lineas)
            /\ restauraciones' = [restauraciones EXCEPT ![proc[p].venta] = @ + 1]
       ELSE UNCHANGED <<ventas, stock, estado, restauraciones>>
    /\ proc' = [proc EXCEPT ![p].pc = "af_obtener"]
    /\ UNCHANGED <<precio, carritos, carrito, detalles, nextVenta, nextFactura,
                   reloj, stockAntes, emitidos>>

\* obtenerFacturaPorId after the commit; the invoice is returned.
AF_ObtenerFactura(p) ==
    /\ proc[p].pc = "af_obtener"
    /\ Terminar(p, "anular", LeerFactura(proc[p].factura), 0, proc[p].venta,
                proc[p].factura)
    /\ UNCHANGED <<db, nextVenta, nextFactura, reloj, hist>>

\* ------------------------------------------------ Factura.marcarComoPagada
\* A WHERE clause on id_factura alone.
FacturaCualquiera(f) == f \in DOMAIN facturas

\* A WHERE clause that only excludes the invoices already paid.
FacturaNoPagada(f) ==
    /\ f \in DOMAIN facturas
    /\ facturas[f].estado /= "PAGADA"

\* WHERE id_factura = ? AND estado = 'EMITIDA'.
FacturaPagable(f) ==
    /\ f \in DOMAIN facturas
    /\ facturas[f].estado = "EMITIDA"

\* UPDATE Facturas SET estado = 'PAGADA' WHERE id_factura = ? AND estado =
\* 'EMITIDA' (autocommit); affectedRows = 0 throws.
marcarComoPagada(p, f) ==
    /\ proc[p].pc = "idle"
    /\ peticiones < MaxPeticiones
    /\ peticiones' = peticiones + 1
    /\ IF FacturaPagable(f)
       THEN /\ facturas' = [facturas EXCEPT ![f].estado = "PAGADA"]
            /\ proc' = [proc EXCEPT ![p] =
                  [ProcInicial EXCEPT !.pc = "mp_obtener", !.op = "pagar", !.factura = f]]
       ELSE /\ Terminar(p, "pagar", "NoPagable", 0, 0, f)
            /\ UNCHANGED facturas
    /\ UNCHANGED <<stock, estado, precio, carritos, carrito, ventas, detalles,
                   nextVenta, nextFactura, periodo, hist>>

MP_ObtenerFactura(p) ==
    /\ proc[p].pc = "mp_obtener"
    /\ Terminar(p, "pagar", LeerFactura(proc[p].factura), 0, 0, proc[p].factura)
    /\ UNCHANGED <<db, nextVenta, nextFactura, reloj, hist>>

\* ------------------------------------------------ Factura.eliminarFactura
\* SELECT * FROM Facturas WHERE id_factura = ? and the test on its result.
EF_Leer(p, f) ==
    /\ proc[p].pc = "idle"
    /\ peticiones < MaxPeticiones
    /\ peticiones' = peticiones + 1
    /\ IF f \in DOMAIN facturas
       THEN proc' = [proc EXCEPT ![p] =
                [ProcInicial EXCEPT !.pc = "ef_commit", !.op = "eliminar",
                                    !.factura = f]]
       ELSE Terminar(p, "eliminar", "NoEncontrada", 0, 0, f)
    /\ UNCHANGED <<db, nextVenta, nextFactura, periodo, hist>>

\* DELETE FROM Facturas WHERE id_factura = ?, connection.commit() and return
\* true (also when the row is already gone).
EF_Commit(p) ==
    /\ proc[p].pc = "ef_commit"
    /\ facturas' = [g \in DOMAIN facturas \ {proc[p].factura} |-> facturas[g]]
    /\ Terminar(p, "eliminar", "ok", 0, 0, proc[p].factura)
    /\ UNCHANGED <<stock, estado, precio, carritos, carrito, ventas, detalles,
                   nextVenta, nextFactura, reloj, hist>>

\* ---------------------------------------------------- Producto.actualizar
\* The values Productos.estado takes.
EstadosProducto == {"DISPONIBLE", "AGOTADO", "DESCONTINUADO"}

\* ProductoController.actualizarProducto with a body that resubmits the
\* stored precio, leaves stock out (the controller then sends the stock that
\* buscarPorId returned) and gives estado e: UPDATE Productos SET ...,
\* precio = ?, stock = ?, ..., estado = ? WHERE id_producto = ? (autocommit).
actualizar(pr, e) ==
    /\ peticiones < MaxPeticiones
    /\ peticiones' = peticiones + 1
    /\ e /= estado[pr]
    /\ estado' = [estado EXCEPT ![pr] = e]
    /\ UNCHANGED <<stock, precio, carritos, carrito, ventas, detalles, nextVenta,
                   facturas, nextFactura, periodo, proc, hist>>

\* ---------------------------------------------------------- store errors
\* Any awaited call of a handler may reject (connection lost, lock wait
\* timeout, deadlock victim, ...).  Inside the try block the catch rolls the
\* open transaction back, which discards its writes and frees its locks, and
\* rethrows; after the commit the rollback has nothing left to undo.
ErrorBD(p) ==
    /\ proc[p].pc \notin {"idle", "fin"}
    /\ Terminar(p, proc[p].op, "ErrorBD", proc[p].usuario, proc[p].venta, proc[p].factura)
    /\ UNCHANGED <<db, nextVenta, nextFactura, reloj, hist>>

\* ResponseProvider.success / ResponseProvider.error: the controller sends
\* the response and the worker is free for the next request.
Responder(p) ==
    /\ proc[p].pc = "fin"
    /\ proc' = [proc EXCEPT ![p] = ProcInicial]
    /\ UNCHANGED <<db, nextVenta, nextFactura, reloj, hist>>

\* ------------------------------------------------------------------ Spec
Next ==
    \/ \E u \in Usuarios, pr \in Productos, c \in 1..MaxStock : agregarProducto(u, pr, c)
    \/ \E p \in Procs, u \in Usuarios : PV_Leer(p, u)
    \/ \E p \in Procs : PV_Commit(p)
    \/ \E p \in Procs : PV_ObtenerVenta(p)
    \/ \E p \in Procs, v \in VentaIds : GF_Solicitar(p, v)
    \/ \E p \in Procs : GF_Leer(p)
    \/ \E p \in Procs : GF_Numero(p)
    \/ \E p \in Procs : GF_Commit(p)
    \/ \E p \in Procs : GF_ObtenerFactura(p)
    \/ \E p \in Procs, v \in VentaIds, u \in Usuarios : CV_Leer(p, v, u)
    \/ \E p \in Procs : CV_Commit(p)
    \/ \E p \in Procs, f \in FacturaIds : AF_Leer(p, f)
    \/ \E p \in Procs : AF_Commit(p)
    \/ \E p \in Procs : AF_ObtenerFactura(p)
    \/ \E p \in Procs, f \in FacturaIds : marcarComoPagada(p, f)
    \/ \E p \in Procs : MP_ObtenerFactura(p)
    \/ \E p \in Procs, f \in FacturaIds : EF_Leer(p, f)
    \/ \E p \in Procs : EF_Commit(p)
    \/ \E pr \in Productos, e \in EstadosProducto : actualizar(pr, e)
    \/ \E p \in Procs : ErrorBD(p)
    \/ \E p \in Procs : Responder(p)

Spec == Init /\ [][Next]_vars

\* Checkouts alone, one per worker, from any carts that agregarProducto can
\* have built on products of any initial stock.
InitCompras ==
    /\ stock \in [Productos -> 1..MaxStock]
    /\ estado = [pr \in Productos |-> "DISPONIBLE"]
    /\ precio = [pr \in Productos |-> pr]
    /\ carrito \in [Usuarios -> [Productos -> 0..MaxStock]]
    /\ \A u \in Usuarios, pr \in Productos : carrito[u][pr] <= stock[pr]
    /\ carritos = {u \in Usuarios : \E pr \in Productos : carrito[u][pr] > 0}
    /\ ventas = <<>>
    /\ detalles = <<>>
    /\ nextVenta = 1
    /\ facturas = <<>>
    /\ nextFactura = 1
    /\ periodo = PeriodoInicial
    /\ peticiones = 0
    /\ proc = [p \in Procs |-> ProcInicial]
    /\ stockAntes = <<>>
    /\ restauraciones = <<>>
    /\ emitidos = <<>>

NextCompras ==
    \/ \E p \in Procs, u \in Usuarios : PV_Leer(p, u)
    \/ \E p \in Procs : PV_Commit(p)
    \/ \E p \in Procs : PV_ObtenerVenta(p)
    \/ \E p \in Procs : GF_Leer(p)
    \/ \E p \in Procs : GF_Numero(p)
    \/ \E p \in Procs : GF_Commit(p)
    \/ \E p \in Procs : GF_ObtenerFactura(p)

SpecCompras == InitCompras /\ [][NextCompras]_vars

\* Invoice issuance alone, for two completed sales of one unit of product 1,
\* in December 2026 or January 2027, on a table Facturas that is empty or
\* holds the invoice of the first sale, issued in either month with any
\* four-digit sequence.
Periodos == {PeriodoInicial, PeriodoInicial + 89}

RECURSIVE Potencia10(_)
Potencia10(k) == IF k = 0 THEN 1 ELSE 10 * Potencia10(k - 1)

SecuenciasIniciales == 1..(Potencia10(AnchoSecuencial) - 1)

VentaInicial ==
    [id_usuario |-> 1, total_venta |-> precio[1], estado_venta |-> "COMPLETADA"]

DetalleInicial ==
    <<[id_producto |-> 1, cantidad |-> 1, precio_unitario |-> precio[1],
       subtotal_linea |-> precio[1]]>>

InitNumero ==
    /\ stock = [pr \in Productos |-> IF pr = 1 THEN MaxStock - 2 ELSE MaxStock]
    /\ estado = [pr \in Productos |-> IF pr = 1 THEN "AGOTADO" ELSE "DISPONIBLE"]
    /\ precio = [pr \in Productos |-> pr]
    /\ carritos = {1}
    /\ carrito = [u \in Usuarios |-> [pr \in Productos |-> 0]]
    /\ ventas = [v \in 1..2 |-> VentaInicial]
    /\ detalles = [v \in 1..2 |-> DetalleInicial]
    /\ nextVenta = 3
    /\ periodo \in Periodos
    /\ \/ /\ facturas = <<>>
          /\ nextFactura = 1
          /\ emitidos = <<>>
       \/ \E q \in Periodos, n \in SecuenciasIniciales :
            LET numero == PrefijoDelPeriodo(q) \o padStart(Digitos(n), AnchoSecuencial)
            IN /\ facturas = 1 :> FilaFactura(1, numero, precio[1])
               /\ nextFactura = 2
               /\ emitidos = <<numero>>
    /\ peticiones = 0
    /\ proc = [p \in Procs |-> ProcInicial]
    /\ stockAntes = [v \in 1..2 |->
                        [pr \in Productos |-> IF pr = 1 THEN MaxStock + 1 - v ELSE MaxStock]]
    /\ restauraciones = [v \in 1..2 |-> 0]

NextNumero ==
    \/ \E p \in Procs, v \in VentaIds : GF_Solicitar(p, v)
    \/ \E p \in Procs : GF_Leer(p)
    \/ \E p \in Procs : GF_Numero(p)
    \/ \E p \in Procs : GF_Commit(p)
    \/ \E p \in Procs : GF_ObtenerFactura(p)

SpecNumero == InitNumero /\ [][NextNumero]_vars

\* ------------------------------------------------------ the connection pool
\* mysql.createPool({waitForConnections: true, connectionLimit, queueLimit:
\* 0}): db.getConnection() and db.execute() resolve once the pool has an idle
\* connection and wait without limit otherwise.  With the 10 connections of
\* utils/db.js the NumProcs requests of Spec never wait; here the pool is
\* scaled to MaxConexiones.
\*
\* The requests that hold the connection of their transaction: from
\* db.getConnection() to connection.release() in the finally block, which
\* runs after the read-back that follows the commit.
ConConexion ==
    {p \in Procs : proc[p].pc \in {"pv_commit", "pv_obtener", "gf_numero",
                                   "gf_insertar", "gf_obtener", "af_commit",
                                   "af_obtener"}}

ConexionLibre == Cardinality(ConConexion) < MaxConexiones

\* The requests whose next statement is a db.execute() through the pool:
\* generarNumeroFactura, obtenerVentaPorId, obtenerFacturaPorId.
EsperaConexion(p) ==
    proc[p].pc \in {"gf_numero", "pv_obtener", "gf_obtener", "af_obtener"}

getConnection_PV(p, u) == ConexionLibre /\ PV_Leer(p, u)
execute_ObtenerVenta(p) == ConexionLibre /\ PV_ObtenerVenta(p)
getConnection_GF(p) == ConexionLibre /\ GF_Leer(p)
execute_Numero(p) == ConexionLibre /\ GF_Numero(p)
execute_ObtenerFactura(p) == ConexionLibre /\ GF_ObtenerFactura(p)
getConnection_AF(p, f) == ConexionLibre /\ AF_Leer(p, f)
execute_FacturaAnulada(p) == ConexionLibre /\ AF_ObtenerFactura(p)

NextPool ==
    \/ \E p \in Procs, u \in Usuarios : getConnection_PV(p, u)
    \/ \E p \in Procs : PV_Commit(p)
    \/ \E p \in Procs : execute_ObtenerVenta(p)
    \/ \E p \in Procs : getConnection_GF(p)
    \/ \E p \in Procs : execute_Numero(p)
    \/ \E p \in Procs : GF_Commit(p)
    \/ \E p \in Procs : execute_ObtenerFactura(p)
    \/ \E p \in Procs, f \in FacturaIds : getConnection_AF(p, f)
    \/ \E p \in Procs : AF_Commit(p)
    \/ \E p \in Procs : execute_FacturaAnulada(p)
    \/ \E p \in Procs : Responder(p)

SpecPool == InitCompras /\ [][NextPool]_vars

\* =================================================================== claims

\* C1: in every reachable state, under any interleaving of checkouts,
\* cancellations and invoice voids, no product's stock is below 0.
C1_StockNuncaNegativo == \A pr \in Productos : stock[pr] >= 0

\* The sales of user u.
VentasDe(u) == {v \in DOMAIN ventas : ventas[v].id_usuario = u}

\* Every user holds, or has bought in one sale, exactly D units of product
\* pr and nothing else.
EscenarioC2(pr, D) ==
    \A u \in Usuarios :
        \/ /\ VentasDe(u) = {}
           /\ carrito[u] = [x \in Productos |-> IF x = pr THEN D ELSE 0]
        \/ /\ carrito[u] = [x \in Productos |-> 0]
           /\ \E v \in DOMAIN ventas :
                /\ VentasDe(u) = {v}
                /\ Len(detalles[v]) = 1
                /\ detalles[v][1].id_producto = pr
                /\ detalles[v][1].cantidad = D

\* The stock S of pr the checkouts of the scenario started from.
StockInicialC2(pr, D) == stock[pr] + D * Cardinality(DOMAIN ventas)

\* Every worker has finished the checkout of a different user.
TodasTerminadas ==
    /\ \A p \in Procs : proc[p].pc = "fin" /\ proc[p].op = "compra"
    /\ {proc[p].usuario : p \in Procs} = Usuarios

\* C2: N concurrent checkouts by distinct users, each of D units of the same
\* product of stock S, with N*D > S: never more than floor(S/D) of them
\* create a sale, and exactly floor(S/D) have once all have finished.
C2_VentasConcurrentes ==
    \A pr \in Productos, D \in 1..MaxStock :
        (EscenarioC2(pr, D) /\ NumUsuarios * D > StockInicialC2(pr, D))
            => /\ Cardinality(DOMAIN ventas) <= StockInicialC2(pr, D) \div D
               /\ TodasTerminadas =>
                    Cardinality(DOMAIN ventas) = StockInicialC2(pr, D) \div D

\* C3: a checkout that fails at any step, invoice issuance after the sale
\* has been recorded included, leaves no sale of that checkout behind.
C3_CompraAtomica ==
    \A p \in Procs :
        (proc[p].pc = "fin" /\ proc[p].op = "compra" /\ proc[p].res /= "ok")
            => proc[p].venta \notin DOMAIN ventas

\* Worker p starts the checkout of user u in this step.
IniciaCompra(p, u) ==
    /\ proc[p].pc = "idle"
    /\ proc'[p].op = "compra"
    /\ proc'[p].usuario = u

\* Some line of u's cart asks for more than the stock of its (available)
\* product.
LineaEnFalta(u) ==
    /\ u \in carritos
    /\ \E pr \in Productos :
        estado[pr] = "DISPONIBLE" /\ carrito[u][pr] > stock[pr]

\* C4: a checkout of a cart with a line that asks for more than the stock
\* fails with the insufficient-stock error and leaves sales, sale lines,
\* stock, availability and the cart as they were.
C4_FaltaSinEfectos ==
    [][\A p \in Procs, u \in Usuarios :
          (IniciaCompra(p, u) /\ LineaEnFalta(u))
             => /\ proc'[p].pc = "fin"
                /\ proc'[p].res = "StockInsuficiente"
                /\ UNCHANGED <<db, nextVenta>>]_vars

\* A checkout has failed for lack of stock of one product on a cart that
\* also holds a line the stock could serve.
C4_Testigo ==
    \E p \in Procs, pr, otro \in Productos :
        LET u == proc[p].usuario
        IN /\ proc[p].pc = "fin"
           /\ proc[p].op = "compra"
           /\ proc[p].res = "StockInsuficiente"
           /\ estado[pr] = "DISPONIBLE" /\ carrito[u][pr] > stock[pr]
           /\ estado[otro] = "DISPONIBLE" /\ carrito[u][otro] > 0
           /\ carrito[u][otro] <= stock[otro]

\* The stock that worker p's checkout read is still the committed stock.
SinInterferencia(p) ==
    \A j \in DOMAIN proc[p].lineas :
        proc[p].lineas[j].stock = stock[proc[p].lineas[j].id_producto]

\* C5: when a checkout that ran without interference commits, every
\* product's stock is its stock before minus the quantity of that product in
\* the lines of the new sale (0 for a product that is not in the sale).
C5_StockDescontado ==
    [][\A p \in Procs :
          (proc[p].pc = "pv_commit" /\ proc'[p].pc = "pv_obtener"
                /\ SinInterferencia(p))
             => /\ proc[p].venta \in DOMAIN ventas'
                /\ \A pr \in Productos :
                      stock'[pr] =
                        stock[pr] - CantidadDe(detalles'[proc[p].venta], pr)]_vars

\* A sale of two lines has just been committed.
C5_Testigo ==
    \E p \in Procs :
        /\ proc[p].pc = "pv_obtener"
        /\ Len(detalles[proc[p].venta]) = 2
        /\ \A pr \in Productos :
              stock[pr] = stockAntes[proc[p].venta][pr]
                            - CantidadDe(detalles[proc[p].venta], pr)

\* The committed stock is what sale v left: nothing else has acted on the
\* products since.
StockTrasVenta(v) ==
    \A pr \in Productos :
        stock[pr] = stockAntes[v][pr] - CantidadDe(detalles[v], pr)

\* C6: when the cancellation of sale v, or the void of its invoice, restores
\* stock with no other operation on the products since the sale, every
\* product's stock is afterwards its stock before the sale.
C6_CompensacionExacta ==
    [][\A v \in DOMAIN restauraciones :
          (restauraciones'[v] = restauraciones[v] + 1 /\ StockTrasVenta(v))
             => \A pr \in Productos : stock'[pr] = stockAntes[v][pr]]_vars

\* The void of an invoice has restored the stock of its sale.
C6_Testigo ==
    \E f \in DOMAIN facturas :
        LET v == facturas[f].id_venta
        IN /\ facturas[f].estado = "ANULADA"
           /\ ventas[v].estado_venta = "CANCELADA"
           /\ restauraciones[v] = 1
           /\ stock = stockAntes[v]

\* C7: under every interleaving of cancellations and voids, the quantities
\* of a sale are added back to stock at most once.
C7_RestauraUnaVez ==
    \A v \in DOMAIN restauraciones : restauraciones[v] <= 1

\* C8: a cancellation of a sale that is already CANCELADA fails and changes
\* neither stock, availability, sales nor invoices.
C8_CancelarCancelada ==
    [][\A p \in Procs :
          (proc[p].pc = "idle" /\ proc'[p].op = "cancelar"
                /\ proc'[p].venta \in DOMAIN ventas
                /\ ventas[proc'[p].venta].estado_venta = "CANCELADA")
             => /\ proc'[p].pc = "fin"
                /\ proc'[p].res = "NoCancelable"
                /\ UNCHANGED db]_vars

\* The owner's cancellation of a cancelled sale has been refused.
C8_Testigo ==
    \E p \in Procs :
        /\ proc[p].pc = "fin"
        /\ proc[p].op = "cancelar"
        /\ proc[p].res = "NoCancelable"
        /\ proc[p].venta \in DOMAIN ventas
        /\ ventas[proc[p].venta].id_usuario = proc[p].usuario
        /\ ventas[proc[p].venta].estado_venta = "CANCELADA"

\* C9: a void of an invoice that is already ANULADA fails and changes
\* neither the invoice, its sale, nor any product's stock or availability.
C9_AnularAnulada ==
    [][\A p \in Procs :
          (proc[p].pc = "idle" /\ proc'[p].op = "anular"
                /\ proc'[p].factura \in DOMAIN facturas
                /\ facturas[proc'[p].factura].estado = "ANULADA")
             => /\ proc'[p].pc = "fin"
                /\ proc'[p].res = "NoAnulable"
                /\ UNCHANGED db]_vars

\* The void of a voided invoice has been refused.
C9_Testigo ==
    \E p \in Procs :
        /\ proc[p].pc = "fin"
        /\ proc[p].op = "anular"
        /\ proc[p].res = "NoAnulable"
        /\ proc[p].factura \in DOMAIN facturas
        /\ facturas[proc[p].factura].estado = "ANULADA"

\* C10: under every interleaving of invoice issuances, the persisted
\* invoices carry pairwise distinct numbers.
C10_NumerosDistintos ==
    \A f, g \in DOMAIN facturas :
        f /= g => facturas[f].numero_factura /= facturas[g].numero_factura

\* Two invoices are persisted after an issuance was refused for its number.
C10_Testigo ==
    /\ Cardinality(DOMAIN facturas) = 2
    /\ \E p \in Procs : proc[p].pc = "fin" /\ proc[p].res = "Duplicada"

\* The period part and the sequence part of an invoice number.
PrefijoDe(n) == SubSeq(n, 1, Len(Prefijo))
SecuenciaDe(n) == SubSeq(n, Len(Prefijo) + 1, Len(n))

\* C11: within one period the numbers of the invoices issued are strictly
\* increasing in issuance order, after any sequence of issue, mark paid,
\* void and delete.
C11_NumerosCrecientes ==
    \A i, j \in DOMAIN emitidos :
        (i < j /\ PrefijoDe(emitidos[i]) = PrefijoDe(emitidos[j]))
            => parseInt(SecuenciaDe(emitidos[i])) < parseInt(SecuenciaDe(emitidos[j]))

\* C12: two issuances in progress for two different sales never hold the
\* same number from the number generator.
C12_NumerosSerializados ==
    \A p, q \in Procs :
        (p /= q /\ proc[p].pc = "gf_insertar" /\ proc[q].pc = "gf_insertar"
                /\ proc[p].venta /= proc[q].venta)
            => proc[p].numero /= proc[q].numero

\* Sale v has an invoice.
TieneFactura(v) == \E f \in DOMAIN facturas : facturas[f].id_venta = v

\* At most one invoice references any sale.
UnaFacturaPorVenta(fs) ==
    \A f, g \in DOMAIN fs : f /= g => fs[f].id_venta /= fs[g].id_venta

\* C13: at most one invoice references any sale in every state, and an
\* issuance for a sale that has an invoice fails, at its check or at its
\* insert, and creates nothing.
C13_UnaFacturaPorVenta ==
    [][/\ UnaFacturaPorVenta(facturas) /\ UnaFacturaPorVenta(facturas')
       /\ \A p \in Procs :
            (proc[p].pc \in {"gf_leer", "gf_insertar"}
                  /\ proc'[p].pc /= proc[p].pc /\ TieneFactura(proc[p].venta))
               => /\ proc'[p].pc = "fin"
                  /\ proc'[p].res /= "ok"
                  /\ UNCHANGED db]_vars

\* An issuance for a sale that has an invoice has been refused.
C13_Testigo ==
    \E p \in Procs :
        /\ proc[p].pc = "fin"
        /\ proc[p].res = "YaTieneFactura"
        /\ TieneFactura(proc[p].venta)

\* C14: an invoice is only ever committed for a sale that exists and is
\* COMPLETADA at the invoice's commit.
C14_FacturaDeVentaCompletada ==
    [][\A f \in DOMAIN facturas' \ DOMAIN facturas :
          /\ facturas'[f].id_venta \in DOMAIN ventas'
          /\ ventas'[facturas'[f].id_venta].estado_venta = "COMPLETADA"]_vars

RECURSIVE SumaLineas(_)
SumaLineas(d) ==
    IF d = <<>> THEN 0 ELSE Head(d).subtotal_linea + SumaLineas(Tail(d))

\* C15: the total of every sale is the sum of the subtotals of its lines,
\* and the subtotal of every line is its quantity times its unit price.
C15_TotalExacto ==
    \A v \in DOMAIN ventas :
        /\ ventas[v].total_venta = SumaLineas(detalles[v])
        /\ \A j \in DOMAIN detalles[v] :
              detalles[v][j].subtotal_linea =
                  detalles[v][j].cantidad * detalles[v][j].precio_unitario

\* A sale of two lines, one of them of more than one unit.
C15_Testigo ==
    \E v \in DOMAIN ventas :
        /\ Len(detalles[v]) = 2
        /\ \E j \in DOMAIN detalles[v] : detalles[v][j].cantidad > 1

\* C16: every invoice is created EMITIDA, and in every state its amount is
\* the total of the sale it references.
C16_MontoIgualTotal ==
    [][\A f \in DOMAIN facturas' :
          /\ facturas'[f].id_venta \in DOMAIN ventas'
          /\ facturas'[f].monto_total = ventas'[facturas'[f].id_venta].total_venta
          /\ f \notin DOMAIN facturas => facturas'[f].estado = "EMITIDA"]_vars

\* An invoice that has left EMITIDA, of a sale of more than one unit.
C16_Testigo ==
    \E f \in DOMAIN facturas :
        /\ facturas[f].estado /= "EMITIDA"
        /\ facturas[f].monto_total = ventas[facturas[f].id_venta].total_venta
        /\ \E j \in DOMAIN detalles[facturas[f].id_venta] :
              detalles[facturas[f].id_venta][j].cantidad > 1

\* C17: marcarComoPagada on an EMITIDA invoice sets it to PAGADA and changes
\* nothing else; on an invoice that is PAGADA, ANULADA or missing it fails
\* and changes nothing, whatever runs concurrently.
C17_PagarSoloEmitida ==
    [][\A p \in Procs :
          (proc[p].pc = "idle" /\ proc'[p].op = "pagar")
             => LET f == proc'[p].factura
                IN IF f \in DOMAIN facturas /\ facturas[f].estado = "EMITIDA"
                   THEN /\ proc'[p].pc = "mp_obtener"
                        /\ facturas' = [facturas EXCEPT ![f].estado = "PAGADA"]
                        /\ UNCHANGED <<stock, estado, precio, carritos, carrito,
                                       ventas, detalles>>
                   ELSE /\ proc'[p].pc = "fin"
                        /\ proc'[p].res = "NoPagable"
                        /\ UNCHANGED db]_vars

\* A payment has been refused on an invoice that a void, which had read it
\* before, has set to ANULADA.
C17_Testigo ==
    \E p, q \in Procs :
        /\ proc[p].pc = "fin" /\ proc[p].op = "pagar" /\ proc[p].res = "NoPagable"
        /\ proc[q].op = "anular" /\ proc[q].factura = proc[p].factura
        /\ proc[q].pc \in {"af_obtener", "fin"} /\ proc[q].res \in {"none", "ok"}
        /\ proc[p].factura \in DOMAIN facturas
        /\ facturas[proc[p].factura].estado = "ANULADA"

\* The transaction of the void that worker p runs has committed.
AnulacionConfirmada(p) == proc[p].op = "anular" /\ proc[p].pc = "af_obtener"

\* C18: a void of an invoice whose sale is COMPLETADA sets the invoice to
\* ANULADA, the sale to CANCELADA and adds every line's quantity back to
\* stock in one step; a void that reports success leaves the invoice
\* ANULADA and the sale CANCELADA; a void that reports failure has committed
\* none of the three.
C18_AnulacionAtomica ==
    [][/\ \A f \in DOMAIN facturas \cap DOMAIN facturas' :
            (facturas[f].estado /= "ANULADA" /\ facturas'[f].estado = "ANULADA"
                  /\ ventas[facturas[f].id_venta].estado_venta = "COMPLETADA")
               => /\ ventas'[facturas[f].id_venta].estado_venta = "CANCELADA"
                  /\ \A pr \in Productos :
                        stock'[pr] = stock[pr]
                            + CantidadDe(detalles[facturas[f].id_venta], pr)
       /\ \A p \in Procs :
            (proc[p].pc /= "fin" /\ proc'[p].pc = "fin" /\ proc'[p].op = "anular")
               => IF proc'[p].res = "ok"
                  THEN /\ proc'[p].factura \in DOMAIN facturas
                       /\ facturas[proc'[p].factura].estado = "ANULADA"
                       /\ ventas[proc'[p].venta].estado_venta = "CANCELADA"
                  ELSE ~AnulacionConfirmada(p)]_vars

\* C19: no CANCELADA sale has an invoice that is still EMITIDA or PAGADA.
C19_SinFacturaHuerfana ==
    \A f \in DOMAIN facturas :
        ventas[facturas[f].id_venta].estado_venta = "CANCELADA"
            => facturas[f].estado = "ANULADA"

\* Worker p starts the cancellation of sale v for requester u in this step.
IniciaCancelacion(p, v, u) ==
    /\ proc[p].pc = "idle"
    /\ proc'[p].op = "cancelar"
    /\ proc'[p].venta = v
    /\ proc'[p].usuario = u

CambiosDeEstado ==
    {<<"EMITIDA", "PAGADA">>, <<"EMITIDA", "ANULADA">>, <<"PAGADA", "ANULADA">>}

\* C21: under any interleaving of issuances, payments and voids, the estado
\* of an invoice changes only from EMITIDA to PAGADA, from EMITIDA to ANULADA
\* or from PAGADA to ANULADA; the estado of an ANULADA invoice never changes.
C21_TransicionesDeEstado ==
    [][\A f \in DOMAIN facturas \cap DOMAIN facturas' :
            \/ facturas'[f].estado = facturas[f].estado
            \/ <<facturas[f].estado, facturas'[f].estado>> \in CambiosDeEstado]_vars

\* An invoice whose payment has succeeded has then been voided.
C21_Testigo ==
    \E p, q \in Procs :
        /\ proc[p].pc = "af_obtener"
        /\ facturas[proc[p].factura].estado = "ANULADA"
        /\ proc[q].pc = "fin" /\ proc[q].op = "pagar" /\ proc[q].res = "ok"
        /\ proc[q].factura = proc[p].factura

\* The products of the lines request p holds.
ProductosDe(p) == {proc[p].lineas[j].id_producto : j \in DOMAIN proc[p].lineas}

\* C22: after the stock UPDATE of a checkout, a sold product that was
\* DISPONIBLE is AGOTADO if and only if its resulting stock is <= 0; with a
\* positive resulting stock it is still DISPONIBLE.
C22_AgotadoSiSinStock ==
    [][\A p \in Procs :
        (proc[p].pc = "pv_commit" /\ proc'[p].pc = "pv_obtener")
            => \A pr \in ProductosDe(p) :
                estado[pr] = "DISPONIBLE"
                    => /\ (estado'[pr] = "AGOTADO") <=> (stock'[pr] <= 0)
                       /\ stock'[pr] > 0 => estado'[pr] = "DISPONIBLE"]_vars

\* Request p commits the restoration of the stock of its lines.
RestauraStock(p) ==
    \/ proc[p].pc = "cv_commit" /\ proc'[p].pc = "fin" /\ proc'[p].res = "ok"
    \/ /\ proc[p].pc = "af_commit" /\ proc'[p].pc = "af_obtener"
       /\ proc[p].estadoVenta = "COMPLETADA"

\* C23: when a cancellation or a void adds the quantity of a line back, the
\* product becomes DISPONIBLE exactly when it was AGOTADO and its resulting
\* stock is > 0; otherwise its estado is left as it was.
C23_DisponibleAlRestaurar ==
    [][\A p \in Procs :
        RestauraStock(p)
            => \A pr \in ProductosDe(p) :
                estado'[pr] = IF estado[pr] = "AGOTADO" /\ stock'[pr] > 0
                              THEN "DISPONIBLE" ELSE estado[pr]]_vars

\* C24: no checkout, cancellation or void moves a DESCONTINUADO product to
\* another estado, also when Producto.actualizar marks the product
\* DESCONTINUADO between the cart read of a checkout and its stock UPDATE.
C24_DescontinuadoPermanece ==
    [][\A p \in Procs :
        (\/ proc[p].pc = "pv_commit" /\ proc'[p].pc = "pv_obtener"
         \/ RestauraStock(p))
            => \A pr \in Productos :
                estado[pr] = "DESCONTINUADO" => estado'[pr] = "DESCONTINUADO"]_vars

\* The lines of the cart of u that the stock test of a checkout rejects.
LineasEnFalta(u) ==
    {[id_producto |-> pr, disponible |-> stock[pr], solicitado |-> carrito[u][pr]] :
        pr \in {x \in Productos : /\ estado[x] = "DISPONIBLE"
                                  /\ carrito[u][x] > stock[x]}}

\* C25: the failure of the stock test of a checkout reports every line whose
\* quantity exceeds the stock, with the available and the requested
\* quantity, whatever the order of the lines.
C25_TodasLasFaltas ==
    [][\A p \in Procs, u \in Usuarios :
        (IniciaCompra(p, u) /\ proc'[p].res = "StockInsuficiente")
            => proc'[p].faltantes = LineasEnFalta(u)]_vars

\* Request p has committed the writes of its transaction and is at the
\* read-back that follows connection.commit() inside the try block.
EscriturasConfirmadas(p) == proc[p].pc \in {"pv_obtener", "gf_obtener", "af_obtener"}

\* C26: when a checkout, an invoice issuance or a void reports failure to
\* its caller, the store keeps none of the writes of that call, whatever the
\* step that failed, the read-back after the commit included.
C26_FalloSinEscrituras ==
    [][\A p \in Procs :
        (proc[p].pc /= "fin" /\ proc'[p].pc = "fin" /\ proc'[p].res /= "ok")
            => ~EscriturasConfirmadas(p)]_vars

\* The sequences of the committed numbers of the current period.
SecuenciasDelPeriodo ==
    {parseInt(slice(n, AnchoSecuencial)) : n \in NumerosDelPeriodo}

\* C27: generarNumeroFactura returns the prefix of the period (4-digit year,
\* 2-digit month) followed by a 4-digit zero-padded sequence, 1 when the
\* period has no invoice and the largest sequence of the period plus 1
\* otherwise; every number issued has exactly 10 digits, and a number of
\* another period differs from it in the prefix.
C27_FormatoDelNumero ==
    [][\A p \in Procs :
        (proc[p].pc = "gf_numero" /\ proc'[p].pc = "gf_insertar")
            => LET n == proc'[p].numero
               IN /\ Len(Prefijo) = 6
                  /\ PrefijoDe(n) = Prefijo
                  /\ Len(n) = 10
                  /\ parseInt(SecuenciaDe(n)) =
                        IF SecuenciasDelPeriodo = {} THEN 1
                        ELSE (CHOOSE m \in SecuenciasDelPeriodo :
                                \A k \in SecuenciasDelPeriodo : k <= m) + 1
                  /\ \A f \in DOMAIN facturas :
                        ~EmpiezaPor(facturas[f].numero_factura, Prefijo)
                            => PrefijoDe(facturas[f].numero_factura) /= PrefijoDe(n)]_vars

\* C28: with a pool of K connections and K or more concurrent checkouts,
\* issuances and voids, no reachable state has all K connections held by
\* requests that each wait for a further connection of the pool, so every
\* request ends with commit or rollback and releases its connection.
C28_SinEsperaCircular ==
    ~(/\ Cardinality(ConConexion) = MaxConexiones
      /\ \A p \in ConConexion : EsperaConexion(p))

\* C29: the contents of one cart are sold at most once: of two concurrent
\* checkouts of the same user on the same cart at most one creates a sale
\* and decrements the stock.  (Where nothing is added to a cart after the
\* initial state, two sales of one user are two sales of the same contents.)
C29_CarritoVendidoUnaVez ==
    \A u \in Usuarios : Cardinality(VentasDe(u)) <= 1

\* C30: every line of the cart that a successful checkout deletes has a line
\* of the sale with the same product and quantity; a line of a product that
\* is not DISPONIBLE, or a line added after the checkout read the cart,
\* stays in the cart.
C30_SoloLineasVendidas ==
    [][\A p \in Procs :
        (proc[p].pc = "pv_commit" /\ proc'[p].pc = "pv_obtener")
            => \A pr \in Productos :
                (carrito[proc[p].usuario][pr] > 0 /\ carrito'[proc[p].usuario][pr] = 0)
                    => \E j \in DOMAIN detalles'[proc[p].venta] :
                        /\ detalles'[proc[p].venta][j].id_producto = pr
                        /\ detalles'[proc[p].venta][j].cantidad
                                = carrito[proc[p].usuario][pr]]_vars
====
